---- MODULE Spec2Model ----
(***************************************************************************)
(* Model of Chapter01/forecasting/forecasting_example.py: the data         *)
(* preparation step (prep_store_data), the fit/evaluate/log step           *)
(* (train_predict, inside a tracking-run scope), the forecast plot         *)
(* (plot_forecast) and the script's entry point.                           *)
(*                                                                         *)
(* A table (pandas DataFrame) is a record                                  *)
(*    [columns : sequence of column labels,                                *)
(*     index   : sequence of row labels,                                   *)
(*     rows    : sequence of rows, each a function label -> cell]          *)
(* A date string "YYYY-MM-DD" is the integer YYYYMMDD; a Timestamp is the  *)
(* number of days since 1970-01-01.                                        *)
(***************************************************************************)
EXTENDS Integers, Sequences, FiniteSets

VARIABLES
    pc,               \* position of the running script / harness
    file_exists,      \* whether ./train.csv is on disk
    existed_at_start, \* whether ./train.csv was on disk when the script started
    download_calls,   \* number of calls of download_kaggle_dataset
    files,            \* image files written by plt.savefig
    df,               \* the caller's table (module-level df)
    df_in,            \* the table as it was when first passed to prep_store_data
    store_id,         \* prep_store_data argument
    store_open,       \* prep_store_data argument
    rets,             \* outcomes of the calls of prep_store_data, in call order
    train_fraction,   \* train_predict argument, the rational <<num, den>>
    tp,               \* locals of train_predict
    runs,             \* tracking runs: [started, active, ended]
    tracker,          \* what was logged to the tracker: [metrics, models]
    exc,              \* the exception that ended the invocation, or "none"
    globals,          \* module-level names bound by line 172
    plots             \* outcomes of the calls of plot_forecast, in call order

vars == <<pc, file_exists, existed_at_start, download_calls, files, df, df_in,
          store_id, store_open, rets, train_fraction, tp, runs, tracker, exc,
          globals, plots>>

---------------------------------------------------------------------------
(* Bounds of the model *)

MaxRows == 2
MaxSeriesRows == 4
MaxDen == 5

(* Program constants *)

DefaultStoreId == 4
DefaultStoreOpen == 1
TailWindow == 100

(* Line 173: train_fraction=0.8, as the rational 4/5. *)
MainTrainFraction == <<4, 5>>

Stores == {DefaultStoreId, DefaultStoreId + 1}
OpenFlags == {0, 1}
DateStrings == {20141231, 20150101, 20150131}
SalesValues == {0, 5}

---------------------------------------------------------------------------
(* Tables *)

Range(s) == {s[i] : i \in DOMAIN s}

RangeIndex(n) == [i \in 1..n |-> i - 1]

EmptyTable == [columns |-> <<>>, index |-> <<>>, rows |-> <<>>]

HasColumn(t, c) == \E i \in DOMAIN t.columns : t.columns[i] = c

SourceColumns == <<"Store", "Open", "Date", "Sales">>

WiderColumns == SourceColumns \o <<"Customers">>

SourceRows ==
    [Store : Stores, Open : OpenFlags, Date : DateStrings, Sales : SalesValues]

WiderRows ==
    [Store : Stores, Open : OpenFlags, Date : DateStrings, Sales : SalesValues,
     Customers : {0}]

(* The tables of n rows with the given columns, labelled 0..n-1 as
   pd.read_csv labels them. *)
TablesOver(cols, rowset, n) ==
    { [columns |-> cols, index |-> RangeIndex(n), rows |-> rs] :
        rs \in [1..n -> rowset] }

(* t is a table pd.read_csv can hand to prep_store_data: up to MaxRows rows of
   the source columns, with or without a further column. *)
IsInputTable(t) ==
    \E n \in 0..MaxRows :
        \/ t \in TablesOver(SourceColumns, SourceRows, n)
        \/ t \in TablesOver(WiderColumns, WiderRows, n)

---------------------------------------------------------------------------
(* prep_store_data *)

DaysFromCivil(y, m, d) ==
    LET yy  == IF m <= 2 THEN y - 1 ELSE y
        era == yy \div 400
        yoe == yy - era * 400
        mp  == (m + 9) % 12
        doy == (153 * mp + 2) \div 5 + d - 1
        doe == yoe * 365 + yoe \div 4 - yoe \div 100 + doy
    IN  era * 146097 + doe - 719468

to_datetime_month(s) == DaysFromCivil(s \div 10000, (s \div 100) % 100, 1)

to_datetime(s) == DaysFromCivil(s \div 10000, (s \div 100) % 100, s % 100)

RenameDateOnly(c) == IF c = "Date" THEN "ds" ELSE c

RenameLabel(c) ==
    IF c = "Date" THEN "ds" ELSE IF c = "Sales" THEN "y" ELSE c

RenamedRow(r, cols) ==
    [c \in {RenameLabel(x) : x \in cols} |->
        LET old == CHOOSE x \in cols : RenameLabel(x) = c IN r[old]]

RowMaskStoreOnly(r, sid, sopen) == r["Store"] = sid

RowMask(r, sid, sopen) == r["Store"] = sid /\ r["Open"] = sopen

RECURSIVE KeptPositions(_, _, _, _)
KeptPositions(rows, sid, sopen, i) ==
    IF i > Len(rows) THEN <<>>
    ELSE (IF RowMask(rows[i], sid, sopen) THEN <<i>> ELSE <<>>)
         \o KeptPositions(rows, sid, sopen, i + 1)

Descending(a, b) == a >= b

Ascending(a, b) == a <= b

Orderings(n) ==
    {p \in [1..n -> 1..n] : \A i, j \in 1..n : i # j => p[i] # p[j]}

(* Line 46: the Date cells become Timestamps, in the caller's table. *)
AssignDate(t) ==
    [t EXCEPT !.rows =
        [i \in DOMAIN t.rows |->
            [t.rows[i] EXCEPT !["Date"] = to_datetime(t.rows[i]["Date"])]]]

(* Line 47: rename(..., inplace=True), in the caller's table. *)
RenameInPlace(t) ==
    [t EXCEPT
        !.columns = [i \in DOMAIN t.columns |-> RenameLabel(t.columns[i])],
        !.rows = [i \in DOMAIN t.rows |-> RenamedRow(t.rows[i], Range(t.columns))]]

(* Lines 48-50: boolean-mask selection, then reset_index(drop=True). *)
FilterStore(t, sid, sopen) ==
    LET keep == KeptPositions(t.rows, sid, sopen, 1)
    IN  [columns |-> t.columns,
         index   |-> RangeIndex(Len(keep)),
         rows    |-> [i \in DOMAIN keep |-> t.rows[keep[i]]]]

(* Line 51: sort_values("ds", ascending=True) returns a new table; rows with
   equal keys may come out in any order (the default sort is not stable). *)
SortValues(t) ==
    { [columns |-> t.columns,
       index   |-> [i \in DOMAIN t.rows |-> t.index[p[i]]],
       rows    |-> [i \in DOMAIN t.rows |-> t.rows[p[i]]]] :
        p \in {q \in Orderings(Len(t.rows)) :
                 \A i, j \in 1..Len(t.rows) :
                    i < j => Ascending(t.rows[q[i]]["ds"], t.rows[q[j]]["ds"])} }

KeyError(t) == [df |-> t, ret |-> [status |-> "KeyError", table |-> EmptyTable]]

(* The outcomes of prep_store_data(t, sid, sopen): the caller's table after the
   call (df) and what the call returned or raised (ret). *)
prep_store_data(t, sid, sopen) ==
    IF ~HasColumn(t, "Date") THEN {KeyError(t)}
    ELSE LET t2 == RenameInPlace(AssignDate(t))
         IN  IF ~HasColumn(t2, "Store") \/ ~HasColumn(t2, "Open")
             THEN {KeyError(t2)}
             ELSE { [df |-> t2, ret |-> [status |-> "ok", table |-> s]] :
                        s \in SortValues(FilterStore(t2, sid, sopen)) }

---------------------------------------------------------------------------
(* train_predict *)

Min(a, b) == IF a <= b THEN a ELSE b

Max(a, b) == IF a >= b THEN a ELSE b

(* Python slice bounds: a negative bound counts from the end, and both are
   clipped to the table. *)
SliceBound(k, n) == IF k < 0 THEN Max(0, n + k) ELSE Min(k, n)

(* t.iloc[start:stop], by position; the rows keep their labels. *)
Iloc(t, start, stop) ==
    LET n == Len(t.rows)
        a == SliceBound(start, n)
        b == SliceBound(stop, n)
    IN  [columns |-> t.columns,
         index   |-> SubSeq(t.index, a + 1, b),
         rows    |-> SubSeq(t.rows, a + 1, b)]

(* int(x) of the rational x = a / b, b > 0: truncation toward zero. *)
IntOf(a, b) == IF a >= 0 THEN a \div b ELSE -((-a) \div b)

TrainIndexCeil(f, n) == (f[1] * n + f[2] - 1) \div f[2]

(* Line 78: int(train_fraction * df.shape[0]). *)
TrainIndex(f, n) == IntOf(f[1] * n, f[2])

(* Line 99: model.predict(df_test) gives one forecast row per row of df_test,
   keyed by its ds; the forecast values themselves come from the library. *)
Predict(t) == [i \in DOMAIN t.rows |-> [ds |-> t.rows[i]["ds"]]]

NoLocals ==
    [train_index |-> 0, df_train |-> EmptyTable, df_test |-> EmptyTable,
     predicted |-> <<>>]

(* Lines 78-80. *)
SplitLocals(t, f) ==
    LET ti == TrainIndex(f, Len(t.rows))
    IN  [train_index |-> ti,
         df_train    |-> Iloc(t, 0, ti),
         df_test     |-> Iloc(t, ti, Len(t.rows)),
         predicted   |-> <<>>]

NoRuns == [started |-> 0, active |-> 0, ended |-> 0]

(* Line 76: mlflow.start_run() on entering the with block. *)
EnterRun(r) == [r EXCEPT !.started = @ + 1, !.active = @ + 1]

ExitRunLeak(r, raised) ==
    IF raised THEN r ELSE [r EXCEPT !.active = @ - 1, !.ended = @ + 1]

(* Line 76: leaving the with block ends the run, whether the block returned
   or raised. *)
ExitRun(r, raised) == [r EXCEPT !.active = @ - 1, !.ended = @ + 1]

BodyLabels == {"tp_fit", "tp_cv", "tp_metric", "tp_model", "tp_predict"}

RaisedAt(label) ==
    IF label = "tp_fit" THEN "fit"
    ELSE IF label = "tp_cv" THEN "cross_validation"
    ELSE IF label = "tp_metric" THEN "metric"
    ELSE IF label = "tp_model" THEN "log_model"
    ELSE "predict"

StartRun ==
    /\ pc = "tp_call"
    /\ runs' = EnterRun(runs)
    /\ pc' = "tp_split"
    /\ UNCHANGED <<file_exists, existed_at_start, download_calls, files, df, df_in,
                   store_id, store_open, rets, train_fraction, tp, tracker, exc,
                   globals, plots>>

Split ==
    /\ pc = "tp_split"
    /\ tp' = SplitLocals(df, train_fraction)
    /\ pc' = "tp_fit"
    /\ UNCHANGED <<file_exists, existed_at_start, download_calls, files, df, df_in,
                   store_id, store_open, rets, train_fraction, runs, tracker, exc,
                   globals, plots>>

(* Lines 83-91. *)
Fit ==
    /\ pc = "tp_fit"
    /\ pc' = "tp_cv"
    /\ UNCHANGED <<file_exists, existed_at_start, download_calls, files, df, df_in,
                   store_id, store_open, rets, train_fraction, tp, runs, tracker,
                   exc, globals, plots>>

(* Lines 92-94. *)
CrossValidate ==
    /\ pc = "tp_cv"
    /\ pc' = "tp_metric"
    /\ UNCHANGED <<file_exists, existed_at_start, download_calls, files, df, df_in,
                   store_id, store_open, rets, train_fraction, tp, runs, tracker,
                   exc, globals, plots>>

(* Lines 95-96. *)
LogMetric ==
    /\ pc = "tp_metric"
    /\ tracker' = [tracker EXCEPT !.metrics = @ + 1]
    /\ pc' = "tp_model"
    /\ UNCHANGED <<file_exists, existed_at_start, download_calls, files, df, df_in,
                   store_id, store_open, rets, train_fraction, tp, runs, exc,
                   globals, plots>>

(* Lines 97-98. *)
LogModel ==
    /\ pc = "tp_model"
    /\ tracker' = [tracker EXCEPT !.models = @ + 1]
    /\ pc' = "tp_predict"
    /\ UNCHANGED <<file_exists, existed_at_start, download_calls, files, df, df_in,
                   store_id, store_open, rets, train_fraction, tp, runs, exc,
                   globals, plots>>

(* Lines 99-100: predict, return, and the with block is left. *)
PredictAndReturn ==
    /\ pc = "tp_predict"
    /\ tp' = [tp EXCEPT !.predicted = Predict(tp.df_test)]
    /\ runs' = ExitRun(runs, FALSE)
    /\ pc' = "tp_returned"
    /\ UNCHANGED <<file_exists, existed_at_start, download_calls, files, df, df_in,
                   store_id, store_open, rets, train_fraction, tracker, exc,
                   globals, plots>>

(* A call inside the with block raises: the block is left and the exception
   propagates to the caller. *)
RaiseInBody ==
    /\ pc \in BodyLabels
    /\ exc' = RaisedAt(pc)
    /\ runs' = ExitRun(runs, TRUE)
    /\ pc' = "tp_raised"
    /\ UNCHANGED <<file_exists, existed_at_start, download_calls, files, df, df_in,
                   store_id, store_open, rets, train_fraction, tp, tracker,
                   globals, plots>>

train_predict ==
    \/ StartRun
    \/ Split
    \/ Fit
    \/ CrossValidate
    \/ LogMetric
    \/ LogModel
    \/ PredictAndReturn
    \/ RaiseInBody

---------------------------------------------------------------------------
(* Plotting *)

(* Lines 54-63. *)
plot_store_data(written) == written \cup {"store_data.png"}

(* Lines 103-148: what a call of plot_forecast does, given its three arguments
   and the module namespace ns in which the name train_index is looked up. *)
plot_forecast(a_train, a_test, a_predicted, ns) ==
    IF "train_index" \notin DOMAIN ns
    THEN [status |-> "NameError", truth |-> a_test.rows, forecast |-> a_predicted,
          history |-> <<>>, saved |-> {}]
    ELSE [status |-> "ok", truth |-> a_test.rows, forecast |-> a_predicted,
          history |-> Iloc(a_train, ns["train_index"] - TailWindow,
                           Len(a_train.rows)).rows,
          saved |-> {"store_data_forecast.png"}]

---------------------------------------------------------------------------
(* The initial values of the state an entry point does not use. *)

NoFiles ==
    /\ file_exists = FALSE
    /\ existed_at_start = FALSE
    /\ download_calls = 0
    /\ files = {}

NoPrep ==
    /\ df_in = EmptyTable
    /\ store_id = DefaultStoreId
    /\ store_open = DefaultStoreOpen
    /\ rets = <<>>

NoTraining ==
    /\ tp = NoLocals
    /\ runs = NoRuns
    /\ tracker = [metrics |-> 0, models |-> 0]
    /\ exc = "none"

NoPlots ==
    /\ globals = <<>>
    /\ plots = <<>>

---------------------------------------------------------------------------
(* Harness for prep_store_data: any input table, store identifier and
   open-flag value; the function is called, and called again on the same
   table object. *)

InitPrep ==
    /\ pc = "prep"
    /\ IsInputTable(df)
    /\ df_in = df
    /\ store_id \in Stores
    /\ store_open \in OpenFlags
    /\ rets = <<>>
    /\ train_fraction = MainTrainFraction
    /\ NoFiles /\ NoTraining /\ NoPlots

CallPrep ==
    /\ pc = "prep"
    /\ Len(rets) < 2
    /\ \E o \in prep_store_data(df, store_id, store_open) :
          /\ df' = o.df
          /\ rets' = Append(rets, o.ret)
    /\ UNCHANGED <<pc, file_exists, existed_at_start, download_calls, files, df_in,
                   store_id, store_open, train_fraction, tp, runs, tracker, exc,
                   globals, plots>>

NextPrep == CallPrep

SpecPrep == InitPrep /\ [][NextPrep]_vars

---------------------------------------------------------------------------
(* Harness for train_predict: any series, any split fraction in (0,1). *)

Timestamps == {to_datetime(s) : s \in DateStrings}

SeriesRows == [ds : Timestamps, y : SalesValues]

(* The tables of the prepared shape with n rows, the row labels in either
   order. *)
SeriesTables(n) ==
    { [columns |-> <<"ds", "y">>, index |-> ix, rows |-> rs] :
        rs \in [1..n -> SeriesRows],
        ix \in {RangeIndex(n), [i \in 1..n |-> n - i]} }

Fractions == {f \in (1..MaxDen) \X (2..MaxDen) : f[1] < f[2]}

InitTrain ==
    /\ pc = "tp_call"
    /\ \E n \in 0..MaxSeriesRows : df \in SeriesTables(n)
    /\ train_fraction \in Fractions
    /\ NoFiles /\ NoPrep /\ NoTraining /\ NoPlots

NextTrain == train_predict

SpecTrain == InitTrain /\ [][NextTrain]_vars

---------------------------------------------------------------------------
(* Harness for plot_forecast: the same three arguments are plotted twice,
   and in between the module-level name train_index may be bound, rebound or
   left alone. *)

ModuleNamespaces ==
    {<<>>} \cup
    {[n \in {"train_index"} |-> k] :
        k \in (0..MaxSeriesRows) \cup (TailWindow..(TailWindow + MaxSeriesRows))}

InitPlot ==
    /\ pc = "plot_call"
    /\ \E n \in 0..MaxSeriesRows :
          df \in {t \in SeriesTables(n) : t.index = RangeIndex(n)}
    /\ tp = [SplitLocals(df, MainTrainFraction) EXCEPT
                !.predicted = Predict(SplitLocals(df, MainTrainFraction).df_test)]
    /\ train_fraction = MainTrainFraction
    /\ globals \in ModuleNamespaces
    /\ plots = <<>>
    /\ runs = NoRuns
    /\ tracker = [metrics |-> 0, models |-> 0]
    /\ exc = "none"
    /\ NoFiles /\ NoPrep

CallPlot ==
    /\ pc = "plot_call"
    /\ Len(plots) < 2
    /\ LET o == plot_forecast(tp.df_train, tp.df_test, tp.predicted, globals)
       IN  /\ plots' = Append(plots, o)
           /\ files' = files \cup o.saved
    /\ UNCHANGED <<pc, file_exists, existed_at_start, download_calls, df, df_in,
                   store_id, store_open, rets, train_fraction, tp, runs, tracker,
                   exc, globals>>

(* Some other step assigns the module-level name train_index. *)
BindTrainIndex ==
    /\ pc = "plot_call"
    /\ Len(plots) = 1
    /\ globals' \in ModuleNamespaces \ {<<>>, globals}
    /\ UNCHANGED <<pc, file_exists, existed_at_start, download_calls, files, df,
                   df_in, store_id, store_open, rets, train_fraction, tp, runs,
                   tracker, exc, plots>>

NextPlot == CallPlot \/ BindTrainIndex

SpecPlot == InitPlot /\ [][NextPlot]_vars

---------------------------------------------------------------------------
(* The script's entry point, lines 151-177. *)

AlwaysDownload(exists) == TRUE

(* Line 156: the else branch is taken when ./train.csv does not exist. *)
NeedsDownload(exists) == ~exists

InitMain ==
    /\ pc = "start"
    /\ file_exists \in BOOLEAN
    /\ existed_at_start = file_exists
    /\ download_calls = 0
    /\ files = {}
    /\ df = EmptyTable
    /\ train_fraction = MainTrainFraction
    /\ NoPrep /\ NoTraining /\ NoPlots

(* Lines 155-160. *)
CheckFile ==
    /\ pc = "start"
    /\ pc' = IF NeedsDownload(file_exists) THEN "download" ELSE "read"
    /\ UNCHANGED <<file_exists, existed_at_start, download_calls, files, df, df_in,
                   store_id, store_open, rets, train_fraction, tp, runs, tracker,
                   exc, globals, plots>>

(* Line 161, lines 33-40: the download writes ./train.csv, or raises. *)
download_kaggle_dataset ==
    /\ pc = "download"
    /\ download_calls' = download_calls + 1
    /\ \/ /\ file_exists' = TRUE
          /\ pc' = "read"
          /\ exc' = exc
       \/ /\ file_exists' = file_exists
          /\ pc' = "failed"
          /\ exc' = "download"
    /\ UNCHANGED <<existed_at_start, files, df, df_in, store_id, store_open, rets,
                   train_fraction, tp, runs, tracker, globals, plots>>

(* Lines 158 and 163: pd.read_csv(file_path). *)
ReadCsv ==
    /\ pc = "read"
    /\ IF file_exists
       THEN /\ IsInputTable(df')
            /\ pc' = "main_prep"
            /\ exc' = exc
       ELSE /\ df' = df
            /\ pc' = "failed"
            /\ exc' = "FileNotFoundError"
    /\ UNCHANGED <<file_exists, existed_at_start, download_calls, files, df_in,
                   store_id, store_open, rets, train_fraction, tp, runs, tracker,
                   globals, plots>>

(* Line 166: df = prep_store_data(df), with the default store and flag. *)
MainPrep ==
    /\ pc = "main_prep"
    /\ \E o \in prep_store_data(df, DefaultStoreId, DefaultStoreOpen) :
          /\ rets' = Append(rets, o.ret)
          /\ IF o.ret.status = "ok"
             THEN /\ df' = o.ret.table
                  /\ pc' = "tp_call"
                  /\ exc' = exc
             ELSE /\ df' = o.df
                  /\ pc' = "failed"
                  /\ exc' = o.ret.status
    /\ UNCHANGED <<file_exists, existed_at_start, download_calls, files, df_in,
                   store_id, store_open, train_fraction, tp, runs, tracker, globals,
                   plots>>

(* Line 172: the four results are bound to module-level names. *)
BindResults ==
    /\ pc = "tp_returned"
    /\ globals' = [n \in {"predicted", "df_train", "df_test", "train_index"} |->
                     tp[n]]
    /\ pc' = "plot"
    /\ UNCHANGED <<file_exists, existed_at_start, download_calls, files, df, df_in,
                   store_id, store_open, rets, train_fraction, tp, runs, tracker,
                   exc, plots>>

(* Line 177: plot_forecast(df_train, df_test, predicted). *)
MainPlot ==
    /\ pc = "plot"
    /\ LET o == plot_forecast(globals["df_train"], globals["df_test"],
                              globals["predicted"], globals)
       IN  /\ plots' = Append(plots, o)
           /\ files' = files \cup o.saved
           /\ pc' = IF o.status = "ok" THEN "done" ELSE "failed"
           /\ exc' = IF o.status = "ok" THEN exc ELSE o.status
    /\ UNCHANGED <<file_exists, existed_at_start, download_calls, df, df_in,
                   store_id, store_open, rets, train_fraction, tp, runs, tracker,
                   globals>>

Init == InitMain

Next ==
    \/ CheckFile
    \/ download_kaggle_dataset
    \/ ReadCsv
    \/ MainPrep
    \/ train_predict
    \/ BindResults
    \/ MainPlot

Spec == Init /\ [][Next]_vars

---------------------------------------------------------------------------
(* Properties of prep_store_data, under SpecPrep *)

Returned(k) == k \in DOMAIN rets /\ rets[k].status = "ok"

Output(k) == rets[k].table

(* C1: every row of the table returned by prep_store_data has Store equal to
   the requested store identifier and Open equal to the requested open-flag
   value. *)
C1_OnlyRequestedStoreAndFlag ==
    \A k \in DOMAIN rets :
        Returned(k) =>
            \A i \in DOMAIN Output(k).rows :
                /\ Output(k).rows[i]["Store"] = store_id
                /\ Output(k).rows[i]["Open"] = store_open

(* C1 witness: a call returned a row and left out a row of the input. *)
C1_Witness ==
    /\ Returned(1)
    /\ Len(Output(1).rows) >= 1
    /\ Len(Output(1).rows) < Len(df_in.rows)

(* C2: the ds column of the returned table is non-decreasing: each output row's
   ds is less than or equal to the ds of the row after it. *)
C2_SortedByDs ==
    \A k \in DOMAIN rets :
        Returned(k) =>
            \A i \in 1..(Len(Output(k).rows) - 1) :
                Output(k).rows[i]["ds"] <= Output(k).rows[i + 1]["ds"]

(* C2 witness: two rows that the input held latest-first came out
   earliest-first. *)
C2_Witness ==
    /\ Returned(1)
    /\ Len(Output(1).rows) = 2
    /\ Len(df_in.rows) = 2
    /\ df_in.rows[1]["Date"] > df_in.rows[2]["Date"]
    /\ Output(1).rows[1]["ds"] < Output(1).rows[2]["ds"]

HasSourceColumns(t) == \A c \in Range(SourceColumns) : HasColumn(t, c)

(* C4, as claimed: given the expected source columns, the column names of the
   returned table are exactly ds and y, and no other column. *)
C4_ExactlyDsAndY ==
    (Returned(1) /\ HasSourceColumns(df_in)) =>
        Range(Output(1).columns) = {"ds", "y"}

(* C4, amended: given the expected source columns, the column names of the
   returned table are the input's column names, in the input's order, with
   Date replaced by ds and Sales replaced by y; every other column (Store, Open
   and the rest) is kept, and every row has exactly these columns. *)
C4_ColumnsRenamedOthersKept ==
    (Returned(1) /\ HasSourceColumns(df_in)) =>
        /\ Len(Output(1).columns) = Len(df_in.columns)
        /\ \A i \in DOMAIN df_in.columns :
              Output(1).columns[i] =
                 IF df_in.columns[i] = "Date" THEN "ds"
                 ELSE IF df_in.columns[i] = "Sales" THEN "y"
                 ELSE df_in.columns[i]
        /\ \A i \in DOMAIN Output(1).rows :
              DOMAIN Output(1).rows[i] = Range(Output(1).columns)

(* C4 witness: a table with a further column was prepared and rows came back. *)
C4_Witness ==
    /\ Returned(1)
    /\ HasSourceColumns(df_in)
    /\ HasColumn(df_in, "Customers")
    /\ Len(Output(1).rows) >= 1

(* C5, as claimed: after a call the caller's table has the column names and
   cell values it had before the call, and a second call on the same table
   returns, with the result of the first. *)
C5_InputTableUnchanged ==
    /\ Len(rets) >= 1 =>
          /\ df.columns = df_in.columns
          /\ df.rows = df_in.rows
    /\ Len(rets) >= 2 =>
          /\ rets[2].status = "ok"
          /\ rets[2] = rets[1]

UniqueDs(t) ==
    \A i, j \in DOMAIN t.rows : i # j => t.rows[i]["ds"] # t.rows[j]["ds"]

OneRowPerStoreAndDate(t) ==
    \A i, j \in DOMAIN t.rows :
        i # j => ~(/\ t.rows[i]["Store"] = t.rows[j]["Store"]
                   /\ t.rows[i]["Date"] = t.rows[j]["Date"])

(* C9, as claimed: for every input table no two rows of the returned table
   have the same ds. *)
C9_UniqueTimestamps == Returned(1) => UniqueDs(Output(1))

(* C9, amended: for every input table that holds at most one row per store
   and date, no two rows of the returned table have the same ds. *)
C9_UniqueTimestampsGivenUniqueInput ==
    (Returned(1) /\ OneRowPerStoreAndDate(df_in)) => UniqueDs(Output(1))

(* C9 witness: an input with one row per store and date gave back two rows. *)
C9_Witness ==
    /\ Returned(1)
    /\ OneRowPerStoreAndDate(df_in)
    /\ Len(Output(1).rows) = 2

---------------------------------------------------------------------------
(* Properties of train_predict, under SpecTrain *)

SplitDone == pc \in BodyLabels \cup {"tp_returned", "tp_raised"}

(* C3: train_index is floor(f * n); the train slice is the first train_index
   rows of the series and the test slice the remaining rows, both in the
   series' order, so the two lengths add up to n (n = 400, f = 0.8 gives 320
   and 80). *)
C3_PrefixSuffixSplit ==
    /\ SplitDone =>
        LET n  == Len(df.rows)
            ti == (train_fraction[1] * n) \div train_fraction[2]
        IN  /\ tp.train_index = ti
            /\ tp.df_train.rows = [i \in 1..ti |-> df.rows[i]]
            /\ tp.df_train.index = [i \in 1..ti |-> df.index[i]]
            /\ tp.df_test.rows = [i \in 1..(n - ti) |-> df.rows[ti + i]]
            /\ tp.df_test.index = [i \in 1..(n - ti) |-> df.index[ti + i]]
            /\ Len(tp.df_train.rows) + Len(tp.df_test.rows) = n
    /\ TrainIndex(<<4, 5>>, 400) = 320
    /\ 400 - TrainIndex(<<4, 5>>, 400) = 80

(* C3 witness: train_predict returned with a non-empty train slice and a
   non-empty test slice, of a series whose product f * n is not a whole
   number. *)
C3_Witness ==
    /\ pc = "tp_returned"
    /\ Len(tp.df_train.rows) >= 1
    /\ Len(tp.df_test.rows) >= 1
    /\ (train_fraction[1] * Len(df.rows)) % train_fraction[2] # 0

(* C6: an invocation of train_predict starts exactly one tracking run, which
   is open while the body runs and closed when the invocation has ended, by
   return or by an exception of fit, cross-validation, the metric lookup or
   the logging. *)
C6_RunClosedAtEnd ==
    /\ pc = "tp_call" => runs = [started |-> 0, active |-> 0, ended |-> 0]
    /\ pc \in BodyLabels \cup {"tp_split"} =>
          runs = [started |-> 1, active |-> 1, ended |-> 0]
    /\ pc \in {"tp_returned", "tp_raised"} =>
          runs = [started |-> 1, active |-> 0, ended |-> 1]

(* C6 witness: the invocation ended by an exception of the metric step, after
   the run was started. *)
C6_Witness ==
    /\ pc = "tp_raised"
    /\ exc = "metric"
    /\ runs.started = 1

---------------------------------------------------------------------------
(* Properties of the entry point, under Spec *)

(* C7: the download is called if and only if ./train.csv was absent at start:
   never when the file existed, and exactly once, before the file is read,
   when it was absent; a failed download is not retried. *)
C7_DownloadIffAbsent ==
    /\ download_calls <= 1
    /\ existed_at_start => download_calls = 0
    /\ (~existed_at_start /\ pc \notin {"start", "download"}) => download_calls = 1
    /\ (pc = "failed" /\ exc = "download") => (download_calls = 1 /\ df = EmptyTable)
    /\ pc \in {"start", "download"} => df = EmptyTable

(* C7 witness: the file was absent, was downloaded once, and the script
   completed. *)
C7_Witness ==
    /\ pc = "done"
    /\ ~existed_at_start
    /\ download_calls = 1

(* C8, as claimed: a run that completes without error has written
   store_data.png and store_data_forecast.png. *)
C8_BothChartsWritten ==
    pc = "done" => {"store_data.png", "store_data_forecast.png"} \subseteq files

---------------------------------------------------------------------------
(* Property of plot_forecast, under SpecPlot *)

(* C10, as claimed: two calls of plot_forecast with equal arguments behave
   the same, whatever the module-level train_index is, or when it is absent. *)
C10_ArgumentsDetermineBehaviour ==
    Len(plots) = 2 => plots[1] = plots[2]

====
